---- MODULE Spec2Model ----
(***************************************************************************)
(* A model of the DM21cm evolution driver (dm21cm/evolve.py) and of its    *)
(* grid interpolator (dm21cm/interpolators_jax.py).                        *)
(*                                                                         *)
(* Numbers.  The program computes with IEEE doubles; the model computes    *)
(* with exact rationals <<n, d>> (d > 0, lowest terms) extended by the     *)
(* three non-finite doubles: NaN = <<0,0>>, +inf = <<1,0>>, -inf = <<-1,0>>.*)
(* Rounding is not modelled; division by zero and the arithmetic of the    *)
(* non-finite values follow IEEE 754.                                      *)
(***************************************************************************)
EXTENDS Integers, Sequences, FiniteSets, TLC

VARIABLES
    \* ---- evolve(): the regular driver loop ----
    pc,                 \* position of evolve() in its loop body
    z_edges,            \* the redshift edges the loop runs over (after z_edges[1:])
    i_z,                \* loop variable of `for i_z in z_range`
    i_z_shell,          \* loop variable of `for i_z_shell in range(...)`
    i_xray_loop_start,  \* where the driver starts looking for annuli
    debug_flags,        \* the debug_flags argument of evolve()
    trace,              \* history: the calls evolve() has made so far, in order
    cfg,                \* z_start, z_end, zplusone_step_factor and the spacing of the loaded table
    evolve_exc,           \* the exception evolve() has raised, or "none"
    records,            \* the list `records`
    arrays,             \* the bin arrays created so far (a record refers to one by its number)
    phot_bath_spec,     \* the number of the array phot_bath_spec holds
    xray_cacher,        \* the entries of the annulus cache, in the order they were cached
    evolve_ret,            \* the 'records' table evolve() returns
    \* ---- harnesses of the pure functions and of BatchInterpolator ----
    zed,                \* get_z_edges: arguments and returned array
    sx,                 \* split_xray: arguments and returned arrays
    ip,                 \* interp1d / interp2d: arguments and returned value
    self,               \* BatchInterpolator: abscs, fixed_in_spec, fixed_in_spec_data
    call,               \* BatchInterpolator: the last __call__, arguments and outcome
    gather_mode         \* what the jax build returns for an index past the end of an array

vars == <<pc, z_edges, i_z, i_z_shell, i_xray_loop_start, debug_flags, trace, cfg, evolve_exc,
          records,
          arrays, phot_bath_spec, xray_cacher, evolve_ret, zed, sx, ip, self, call, gather_mode>>

Idle == [op |-> "idle"]

(***************************************************************************)
(* Double arithmetic                                                       *)
(***************************************************************************)
Abs(a) == IF a < 0 THEN -a ELSE a

Sign(a) == IF a < 0 THEN -1 ELSE IF a > 0 THEN 1 ELSE 0

RECURSIVE GCD(_, _)
GCD(a, b) == IF b = 0 THEN a ELSE GCD(b, a % b)

\* the double n/d, d # 0
Rat(n, d) ==
    LET g == GCD(Abs(n), Abs(d))
    IN  <<Sign(d) * (n \div g), Abs(d) \div g>>

R(n) == <<n, 1>>

NaN == <<0, 0>>

Inf(s) == <<s, 0>>

IsNaN(a) == a = NaN

IsFinite(a) == a[2] # 0

FNeg(a) == <<-a[1], a[2]>>

FAdd(a, b) ==
    IF IsNaN(a) \/ IsNaN(b) THEN NaN
    ELSE IF ~IsFinite(a) /\ ~IsFinite(b) THEN (IF a = b THEN a ELSE NaN)
    ELSE IF ~IsFinite(a) THEN a
    ELSE IF ~IsFinite(b) THEN b
    ELSE LET g == GCD(a[2], b[2])
         IN  Rat(a[1] * (b[2] \div g) + b[1] * (a[2] \div g), (a[2] \div g) * b[2])

FSub(a, b) == FAdd(a, FNeg(b))

FMul(a, b) ==
    IF IsNaN(a) \/ IsNaN(b) THEN NaN
    ELSE IF ~IsFinite(a) \/ ~IsFinite(b)
         THEN (IF a[1] = 0 \/ b[1] = 0 THEN NaN ELSE Inf(Sign(a[1]) * Sign(b[1])))
    ELSE LET g1 == GCD(Abs(a[1]), b[2])
             g2 == GCD(Abs(b[1]), a[2])
         IN  Rat((a[1] \div g1) * (b[1] \div g2), (a[2] \div g2) * (b[2] \div g1))

\* the divisors of the program are differences of abscissa points: a zero
\* divisor is +0.0
FDiv(a, b) ==
    IF IsNaN(a) \/ IsNaN(b) THEN NaN
    ELSE IF ~IsFinite(b) THEN (IF IsFinite(a) THEN R(0) ELSE NaN)
    ELSE IF ~IsFinite(a) THEN (IF b[1] < 0 THEN FNeg(a) ELSE a)
    ELSE IF b[1] = 0 THEN (IF a[1] = 0 THEN NaN ELSE Inf(Sign(a[1])))
    ELSE FMul(a, Rat(b[2], b[1]))

\* comparisons of finite doubles (a comparison with NaN is false)
FLe(a, b) == IsFinite(a) /\ IsFinite(b) /\ a[1] * b[2] <= b[1] * a[2]

FLt(a, b) == IsFinite(a) /\ IsFinite(b) /\ a[1] * b[2] < b[1] * a[2]

FMax(a, b) == IF FLt(a, b) THEN b ELSE a

FMin(a, b) == IF FLt(b, a) THEN b ELSE a

\* numpy / jax.numpy clip(v, lo, hi) = minimum(maximum(v, lo), hi)
Clip(v, lo, hi) == FMin(FMax(v, lo), hi)

Reverse(s) == [k \in 1..Len(s) |-> s[Len(s) + 1 - k]]

RECURSIVE SumSeq(_)
SumSeq(s) == IF s = <<>> THEN R(0) ELSE FAdd(SumSeq(SubSeq(s, 1, Len(s) - 1)), s[Len(s)])

(***************************************************************************)
(* get_z_edges (evolve.py 415-420)                                         *)
(***************************************************************************)
\* redshifts are multiples of 1/2 between -1/2 and MaxZ
MaxZ == 5

Redshifts == {Rat(k, 2) : k \in -1..(2 * MaxZ)}

StepFactors == {Rat(4, 3), Rat(3, 2), R(2), R(3)}

\* z_s.append((z_s[-1] + 1.) * zplusone_step_factor - 1.)
ZAppendBare(z_s, zplusone_step_factor) ==
    Append(z_s, FMul(FAdd(z_s[Len(z_s)], R(1)), zplusone_step_factor))

ZAppend(z_s, zplusone_step_factor) ==
    Append(z_s, FSub(FMul(FAdd(z_s[Len(z_s)], R(1)), zplusone_step_factor), R(1)))

\* while z_s[-1] < z_max
ZLoopCond(z_s, z_max) == FLt(z_s[Len(z_s)], z_max)

\* np.clip(z_s[::-1], None, z_max)
ZClipReverse(z_s, z_max) == [k \in 1..Len(z_s) |-> FMin(Reverse(z_s)[k], z_max)]

RECURSIVE ZLoop(_, _, _)
ZLoop(z_s, z_max, zplusone_step_factor) ==
    IF ZLoopCond(z_s, z_max)
    THEN ZLoop(ZAppend(z_s, zplusone_step_factor), z_max, zplusone_step_factor)
    ELSE z_s

get_z_edges(z_max, z_min, zplusone_step_factor) ==
    ZClipReverse(ZLoop(<<z_min>>, z_max, zplusone_step_factor), z_max)

\* ---- the function run step by step on arguments drawn from the bounded sets
ZInit ==
    \E z_max \in Redshifts, z_min \in Redshifts, f \in StepFactors :
        /\ FLt(z_min, z_max)
        /\ zed = [op |-> "loop", z_max |-> z_max, z_min |-> z_min, f |-> f,
                  z_s |-> <<z_min>>, ret |-> <<>>]

GetZEdgesAppend ==
    /\ zed.op = "loop"
    /\ ZLoopCond(zed.z_s, zed.z_max)
    /\ zed' = [zed EXCEPT !.z_s = ZAppend(zed.z_s, zed.f)]

GetZEdgesReturn ==
    /\ zed.op = "loop"
    /\ ~ZLoopCond(zed.z_s, zed.z_max)
    /\ zed' = [zed EXCEPT !.op = "returned", !.ret = ZClipReverse(zed.z_s, zed.z_max)]

\* ---- the same loop in double precision, for redshifts just above -1.
\* The doubles of [-1, -1/2] are the multiples of 2^-53; the redshift
\* -1 + k * 2^-53 is written k.  For such a z, z + 1. = k * 2^-53 is exact,
\* its product with a step factor n/d (d a power of two, k small) is exact,
\* and the subtraction of 1. rounds to the nearest multiple of 2^-53, ties
\* to the even one.
MaxUlp == 8

UlpStepFactors == {<<9, 8>>, <<5, 4>>, <<3, 2>>, <<2, 1>>}

\* n/d rounded to the nearest integer, ties to even (n >= 0, d > 0)
RoundHalfEven(n, d) ==
    LET q == n \div d
        r == n % d
    IN  IF 2 * r < d THEN q
        ELSE IF 2 * r > d THEN q + 1
        ELSE IF q % 2 = 0 THEN q ELSE q + 1

\* z_s.append((z_s[-1] + 1.) * zplusone_step_factor - 1.)
ZAppendUlp(z_s, zplusone_step_factor) ==
    Append(z_s, RoundHalfEven(z_s[Len(z_s)] * zplusone_step_factor[1],
                              zplusone_step_factor[2]))

\* while z_s[-1] < z_max
ZLoopCondUlp(z_s, z_max) == z_s[Len(z_s)] < z_max

\* np.clip(z_s[::-1], None, z_max)
ZClipReverseUlp(z_s, z_max) ==
    [k \in 1..Len(z_s) |-> IF Reverse(z_s)[k] < z_max THEN Reverse(z_s)[k] ELSE z_max]

\* the list z_s cannot grow without end: past this length append raises
\* MemoryError.  A loop that gains at least 2^-53 per pass stays below it.
ListCapacity == MaxUlp + 1

ZUlpInit ==
    \E z_max \in 1..MaxUlp, z_min \in 1..MaxUlp, f \in UlpStepFactors :
        /\ z_min < z_max
        /\ zed = [op |-> "loop", z_max |-> z_max, z_min |-> z_min, f |-> f,
                  z_s |-> <<z_min>>, ret |-> <<>>]

GetZEdgesUlpAppend ==
    /\ zed.op = "loop"
    /\ ZLoopCondUlp(zed.z_s, zed.z_max)
    /\ Len(zed.z_s) < ListCapacity
    /\ zed' = [zed EXCEPT !.z_s = ZAppendUlp(zed.z_s, zed.f)]

GetZEdgesUlpMemoryError ==
    /\ zed.op = "loop"
    /\ ZLoopCondUlp(zed.z_s, zed.z_max)
    /\ Len(zed.z_s) >= ListCapacity
    /\ zed' = [zed EXCEPT !.op = "raised"]

GetZEdgesUlpReturn ==
    /\ zed.op = "loop"
    /\ ~ZLoopCondUlp(zed.z_s, zed.z_max)
    /\ zed' = [zed EXCEPT !.op = "returned", !.ret = ZClipReverseUlp(zed.z_s, zed.z_max)]

(***************************************************************************)
(* evolve (evolve.py 39-410): start-up and the regular routine of the main *)
(* loop.  The transfer-function wrapper, the external simulator and the    *)
(* annulus cache are seen through the calls evolve() makes on them.        *)
(***************************************************************************)
\* runs start at z_start = 2^k - 1, k <= MaxDoublings, and end at z_end = 0
MaxDoublings == 5

RECURSIVE Pow2(_)
Pow2(k) == IF k = 0 THEN 1 ELSE 2 * Pow2(k - 1)

DebugFlagSets == {{}, {"uniform-xray"}, {"uniform_xray"}}

Max(a, b) == IF a >= b THEN a ELSE b

Call(op, i, k) == [op |-> op, i_z |-> i, i_z_shell |-> k]

NoShell == -1

\* a call made outside the loop
Startup(op) == Call(op, NoShell, NoShell)

\* get_z_edges in arithmetic that rounds every operation, to a multiple of
\* 10^-6 and either always down or always up: the sequence computed in
\* doubles (which round to nearest, far finer) lies between the two.  Values
\* are integers in units of 10^-6; the step factor is fnum / fden.
FxScale == 1000 * 1000

FxDiv(p, q, rounding) == IF rounding = "up" THEN (p + q - 1) \div q ELSE p \div q

\* z_s.append((z_s[-1] + 1.) * zplusone_step_factor - 1.)
ZAppendFx(z_s, fnum, fden, rounding) ==
    Append(z_s, FxDiv((z_s[Len(z_s)] + FxScale) * fnum, fden, rounding) - FxScale)

RECURSIVE ZLoopFx(_, _, _, _, _)
ZLoopFx(z_s, z_max, fnum, fden, rounding) ==
    IF z_s[Len(z_s)] < z_max
    THEN ZLoopFx(ZAppendFx(z_s, fnum, fden, rounding), z_max, fnum, fden, rounding)
    ELSE z_s

\* np.clip(z_s[::-1], None, z_max), as doubles again
get_z_edges_fx(z_max, z_min, fnum, fden, rounding) ==
    LET z_s == ZLoopFx(<<z_min * FxScale>>, z_max * FxScale, fnum, fden, rounding)
    IN  [k \in 1..Len(z_s) |-> FMin(Rat(Reverse(z_s)[k], FxScale), R(z_max))]

\* the edges of a configuration
EdgesOf(c) ==
    IF c.rounding = "exact"
    THEN get_z_edges(R(c.z_start), R(c.z_end), c.zplusone_step_factor)
    ELSE get_z_edges_fx(c.z_start, c.z_end, c.zplusone_step_factor[1], c.zplusone_step_factor[2],
                        c.rounding)

\* np.isclose(np.log(zplusone_step_factor), abscs['dlnz']); the spacing of the
\* table is held as the factor exp(dlnz), and the tolerance is left out
ConfigMatchesAlways(c) == TRUE

ConfigMatches(c) == c.zplusone_step_factor = c.exp_dlnz

\* evolve() is entered: arguments and loaded table spacing
EvolveInit ==
    \E k \in 1..MaxDoublings, f \in {R(2), R(3)}, g \in {R(2), R(3)}, flags \in DebugFlagSets :
        /\ cfg = [z_start |-> Pow2(k) - 1, z_end |-> 0, zplusone_step_factor |-> f,
                  exp_dlnz |-> g, rounding |-> "exact"]
        /\ debug_flags = flags
        /\ z_edges = <<>>
        /\ i_xray_loop_start = 0
        /\ i_z = 0
        /\ i_z_shell = 0
        /\ pc = "start"
        /\ trace = <<>>
        /\ evolve_exc = "none"
        /\ records = <<>>
        /\ arrays = <<>>
        /\ phot_bath_spec = 0
        /\ xray_cacher = <<>>
        /\ evolve_ret = <<>>

\* if not np.isclose(...): raise ValueError(...)
CheckConfig ==
    /\ pc = "start"
    /\ IF ConfigMatches(cfg)
       THEN pc' = "setup" /\ UNCHANGED evolve_exc
       ELSE pc' = "raised" /\ evolve_exc' = "ValueError: zplusone_step_factor and tf_version mismatch"
    /\ UNCHANGED <<z_edges, i_z, i_z_shell, i_xray_loop_start, debug_flags, trace, cfg,
                   records, arrays, phot_bath_spec, xray_cacher, evolve_ret>>

\* the arrays of the run, numbered from 1 in the order they are created: each
\* is one bin of photons
NewArray(N) == Append(arrays, N)

\* lines 102-185: TransferFunctionWrapper(...), Cacher(...), clear_cache(),
\* get_z_edges(...), the initial bath spectrum, the first p21c_step,
\* i_xray_loop_start = 0, z_edges = z_edges[1:]
Setup ==
    /\ pc = "setup"
    /\ trace' = trace \o <<Startup("TransferFunctionWrapper"), Startup("Cacher"),
                           Startup("clear_cache"), Startup("perturb_field"), Startup("p21c_step")>>
    /\ xray_cacher' = <<>>
    /\ z_edges' = Tail(EdgesOf(cfg))
    /\ arrays' = NewArray(0)
    /\ phot_bath_spec' = Len(arrays')
    /\ i_xray_loop_start' = 0
    /\ records' = <<>>
    /\ pc' = "loop"
    /\ UNCHANGED <<i_z, i_z_shell, debug_flags, cfg, evolve_exc, evolve_ret>>

\* for i_z in z_range: ... tf_wrapper.init_step(...);
\* for i_z_shell in range(i_xray_loop_start, i_z): the range is fixed here
BeginStep ==
    /\ pc = "loop"
    /\ i_z < Len(z_edges) - 1
    /\ trace' = Append(trace, Call("init_step", i_z, NoShell))
    /\ i_z_shell' = i_xray_loop_start
    /\ pc' = "xray"
    /\ UNCHANGED <<z_edges, i_z, i_xray_loop_start, debug_flags, cfg, evolve_exc, records, arrays,
                   phot_bath_spec, xray_cacher, evolve_ret>>

\* the pointer update of the fold branch
FoldPointerStay(i_shell, loop_start) == loop_start

FoldPointer(i_shell, loop_start) == Max(i_shell + 1, loop_start)

\* the flag tested by the fold branch
ForcedUniform(flags) == "uniform_xray" \in flags

\* phot_bath_spec.N += xray_spec.N: N is the array the spectrum holds, and +=
\* adds into that array
FoldInPlace(arrs, bath, N) == [arrs EXCEPT ![bath] = @ + N]

\* xray_cacher.get_annulus_data(z_current, z_edges[i_z_shell], z_edges[i_z_shell+1]):
\* the spectrum of the entry keyed at the donor redshift
Missing == [z |-> NaN, donor |-> NoShell, N |-> 0, advanced |-> <<>>]

get_annulus_data(cacher, z_donor) ==
    IF \E k \in 1..Len(cacher) : cacher[k].z = z_donor
    THEN cacher[CHOOSE k \in 1..Len(cacher) : cacher[k].z = z_donor]
    ELSE Missing

\* one iteration of the shell loop: get_annulus_data, then fold or inject
ShellStepBoth(is_box_average) ==
    /\ pc = "xray"
    /\ i_z_shell < i_z
    /\ LET xray_spec == get_annulus_data(xray_cacher, z_edges[i_z_shell + 1])
       IN  /\ trace' = trace \o <<Call("get_annulus_data", i_z, i_z_shell), Call("fold", i_z, i_z_shell),
                                   Call("inject_xray", i_z, i_z_shell)>>
           /\ arrays' = FoldInPlace(arrays, phot_bath_spec, xray_spec.N)
           /\ i_xray_loop_start' = FoldPointer(i_z_shell, i_xray_loop_start)
    /\ i_z_shell' = i_z_shell + 1
    /\ UNCHANGED <<pc, z_edges, i_z, debug_flags, cfg, evolve_exc, records, phot_bath_spec,
                   xray_cacher, evolve_ret>>

ShellStep(is_box_average) ==
    /\ pc = "xray"
    /\ i_z_shell < i_z
    /\ LET got == Append(trace, Call("get_annulus_data", i_z, i_z_shell))
           xray_spec == get_annulus_data(xray_cacher, z_edges[i_z_shell + 1])
       IN  IF is_box_average \/ ForcedUniform(debug_flags)
           THEN /\ trace' = Append(got, Call("fold", i_z, i_z_shell))
                /\ arrays' = FoldInPlace(arrays, phot_bath_spec, xray_spec.N)
                /\ i_xray_loop_start' = FoldPointer(i_z_shell, i_xray_loop_start)
           ELSE /\ trace' = Append(got, Call("inject_xray", i_z, i_z_shell))
                /\ UNCHANGED <<i_xray_loop_start, arrays>>
    /\ i_z_shell' = i_z_shell + 1
    /\ UNCHANGED <<pc, z_edges, i_z, debug_flags, cfg, evolve_exc, records, phot_bath_spec,
                   xray_cacher, evolve_ret>>

\* whatever flag the cache reports
Shell == \E is_box_average \in BOOLEAN : ShellStep(is_box_average)

\* the cache reports a shell as box-averaged once it lies far enough back
ShellByRadius == ShellStep(i_z - i_z_shell >= cfg.box_average_after)

\* tf_wrapper.inject_phot(phot_bath_spec, 'bath'); tf_wrapper.inject_from_dm(...)
BathAndDM ==
    /\ pc = "xray"
    /\ i_z_shell >= i_z
    /\ trace' = trace \o <<Call("inject_bath", i_z, NoShell), Call("inject_from_dm", i_z, NoShell)>>
    /\ pc' = "p21c"
    /\ UNCHANGED <<z_edges, i_z, i_z_shell, i_xray_loop_start, debug_flags, cfg, evolve_exc, records,
                   arrays, phot_bath_spec, xray_cacher, evolve_ret>>

\* populate_injection_boxes, then the external simulator step
P21cStepUnfilled ==
    /\ pc = "p21c"
    /\ trace' = trace \o <<Call("p21c_step", i_z, NoShell), Call("populate_injection_boxes", i_z, NoShell)>>
    /\ pc' = "prep"
    /\ UNCHANGED <<z_edges, i_z, i_z_shell, i_xray_loop_start, debug_flags, cfg, evolve_exc, records,
                   arrays, phot_bath_spec, xray_cacher, evolve_ret>>

P21cStep ==
    /\ pc = "p21c"
    /\ trace' = trace \o <<Call("populate_injection_boxes", i_z, NoShell), Call("p21c_step", i_z, NoShell)>>
    /\ pc' = "prep"
    /\ UNCHANGED <<z_edges, i_z, i_z_shell, i_xray_loop_start, debug_flags, cfg, evolve_exc, records,
                   arrays, phot_bath_spec, xray_cacher, evolve_ret>>

\* Spectrum.toteng(): np.dot(N, eng), for the one bin at 200 eV
toteng(N) == N * 200

\* xray_cacher.advance_spectrum(attenuation_arr, z_next): every stored
\* spectrum takes the attenuation of the step
advance_spectrum(cacher, step) ==
    [k \in 1..Len(cacher) |-> [cacher[k] EXCEPT !.advanced = Append(@, step)]]

\* xray_cacher.cache(z_current, xray_rel_eng_box, xray_spec)
CacheKeyNext(edges, i) == edges[i + 2]

CacheKey(edges, i) == edges[i + 1]

cache(cacher, z_donor, step) ==
    Append(cacher, [z |-> z_donor, donor |-> step, N |-> 1, advanced |-> <<>>])

\* lines 321-395: the new bath spectrum (a new array, redshifted),
\* advance_spectrum, cache(z_current, ...), records.append(record); the record
\* holds the number z_next, the number toteng() and the array phot_bath_spec.N
PrepNextCacheFirst ==
    /\ pc = "prep"
    /\ trace' = trace \o <<Call("cache", i_z, NoShell), Call("advance_spectrum", i_z, NoShell),
                           Call("record", i_z, NoShell)>>
    /\ arrays' = NewArray(1)
    /\ phot_bath_spec' = Len(arrays')
    /\ xray_cacher' = advance_spectrum(cache(xray_cacher, CacheKey(z_edges, i_z), i_z), i_z)
    /\ records' = Append(records, [z |-> z_edges[i_z + 2],
                                   E_phot |-> toteng(arrays'[phot_bath_spec']),
                                   phot_N |-> phot_bath_spec'])
    /\ i_z' = i_z + 1
    /\ pc' = "loop"
    /\ UNCHANGED <<z_edges, i_z_shell, i_xray_loop_start, debug_flags, cfg, evolve_exc, evolve_ret>>

PrepNext ==
    /\ pc = "prep"
    /\ trace' = trace \o <<Call("advance_spectrum", i_z, NoShell), Call("cache", i_z, NoShell),
                           Call("record", i_z, NoShell)>>
    /\ arrays' = NewArray(1)
    /\ phot_bath_spec' = Len(arrays')
    /\ xray_cacher' = cache(advance_spectrum(xray_cacher, i_z), CacheKey(z_edges, i_z), i_z)
    /\ records' = Append(records, [z |-> z_edges[i_z + 2],
                                   E_phot |-> toteng(arrays'[phot_bath_spec']),
                                   phot_N |-> phot_bath_spec'])
    /\ i_z' = i_z + 1
    /\ pc' = "loop"
    /\ UNCHANGED <<z_edges, i_z_shell, i_xray_loop_start, debug_flags, cfg, evolve_exc, evolve_ret>>

\* arr_records = {k: np.array([r[k] for r in records]) for k in records[0].keys()}
arr_records(recs, arrs) ==
    [k \in 1..Len(recs) |-> [z |-> recs[k].z, E_phot |-> recs[k].E_phot, phot_N |-> arrs[recs[k].phot_N]]]

\* the loop is exhausted: lines 403-410
EndLoop ==
    /\ pc = "loop"
    /\ i_z >= Len(z_edges) - 1
    /\ IF records = <<>>
       THEN pc' = "raised" /\ evolve_exc' = "IndexError: list index out of range" /\ UNCHANGED evolve_ret
       ELSE pc' = "done" /\ evolve_ret' = arr_records(records, arrays) /\ UNCHANGED evolve_exc
    /\ UNCHANGED <<z_edges, i_z, i_z_shell, i_xray_loop_start, debug_flags, trace, cfg, records,
                   arrays, phot_bath_spec, xray_cacher>>

\* the scenario run: z_start = 10, z_end = 9, step factor 1.01 on a table of
\* that spacing, no debug flags; the cache reports a shell as box-averaged
\* from some look-back on, or never
ScenarioInit ==
    \E rounding \in {"down", "up"}, after \in {1, 2, 3, 100} :
        /\ cfg = [z_start |-> 10, z_end |-> 9, zplusone_step_factor |-> <<101, 100>>,
                  exp_dlnz |-> <<101, 100>>, rounding |-> rounding, box_average_after |-> after]
        /\ debug_flags = {}
        /\ z_edges = <<>>
        /\ i_xray_loop_start = 0
        /\ i_z = 0
        /\ i_z_shell = 0
        /\ pc = "start"
        /\ trace = <<>>
        /\ evolve_exc = "none"
        /\ records = <<>>
        /\ arrays = <<>>
        /\ phot_bath_spec = 0
        /\ xray_cacher = <<>>
        /\ evolve_ret = <<>>

EvolveVars == <<pc, z_edges, i_z, i_z_shell, i_xray_loop_start, debug_flags, trace, cfg, evolve_exc,
                records, arrays, phot_bath_spec, xray_cacher, evolve_ret>>

EvolveIdle ==
    /\ pc = "idle" /\ z_edges = <<>> /\ i_z = 0 /\ i_z_shell = 0
    /\ i_xray_loop_start = 0 /\ debug_flags = {} /\ trace = <<>>
    /\ cfg = Idle /\ evolve_exc = "none" /\ records = <<>> /\ arrays = <<>>
    /\ phot_bath_spec = 0 /\ xray_cacher = <<>> /\ evolve_ret = <<>>

(***************************************************************************)
(* split_xray (evolve.py 423-436)                                          *)
(***************************************************************************)
ex_lo == 100

ex_hi == 10000

\* bin energies [eV] an abscissa is drawn from, and the bin contents
EnergyGrid == {50, 100, 5000, 10000, 20000}

MaxBins == 4

MaxCount == 2

\* the sorted array holding the elements of S
SortedSeq(S) ==
    CHOOSE s \in [1..Cardinality(S) -> S] : \A a, b \in 1..Cardinality(S) : a < b => s[a] < s[b]

\* np.searchsorted(a, v), side='left': the number of elements below v
searchsorted_left(a, v) == Cardinality({k \in 1..Len(a) : a[k] < v})

\* the bins (numbered from 0) of bath_N[ix_lo:ix_hi] *= 0
BathZeroedOpen(i, ix_lo, ix_hi) == ix_lo < i /\ i < ix_hi

BathZeroed(i, ix_lo, ix_hi) == ix_lo <= i /\ i < ix_hi

\* the bins (numbered from 0) of xray_N[:ix_lo] *= 0 and xray_N[ix_hi:] *= 0
XrayZeroed(i, ix_lo, ix_hi) == i < ix_lo \/ ix_hi <= i

\* the arrays returned, and the argument array as the call leaves it
split_xray(phot_N, phot_eng) ==
    LET ix_lo == searchsorted_left(phot_eng, ex_lo)
        ix_hi == searchsorted_left(phot_eng, ex_hi)
    IN  [bath_N |-> [k \in 1..Len(phot_N) |->
                        IF BathZeroed(k - 1, ix_lo, ix_hi) THEN phot_N[k] * 0 ELSE phot_N[k]],
         xray_N |-> [k \in 1..Len(phot_N) |->
                        IF XrayZeroed(k - 1, ix_lo, ix_hi) THEN phot_N[k] * 0 ELSE phot_N[k]],
         phot_N |-> phot_N]

SxInit ==
    \E E \in SUBSET EnergyGrid :
        /\ Cardinality(E) \in 1..MaxBins
        /\ \E N \in [1..Cardinality(E) -> 0..MaxCount] :
            sx = [op |-> "args", phot_N |-> N, phot_eng |-> SortedSeq(E)]

SplitXray ==
    /\ sx.op = "args"
    /\ LET ret == split_xray(sx.phot_N, sx.phot_eng)
       IN  sx' = [op |-> "returned", phot_N_in |-> sx.phot_N, phot_eng |-> sx.phot_eng,
                  phot_N |-> ret.phot_N, bath_N |-> ret.bath_N, xray_N |-> ret.xray_N]

(***************************************************************************)
(* interp1d, interp2d (interpolators_jax.py 13-53)                         *)
(***************************************************************************)
\* An index past the end of a jax array is not an error: the gather clamps
\* it to the last element ("clip") or yields NaN ("fill"), depending on the
\* build; a negative index counts from the end.
GatherModes == {"clip", "fill"}

\* arr[i], i numbered from 0
JIdx(arr, i) ==
    LET n == Len(arr)
        j == IF i < 0 THEN i + n ELSE i
    IN  IF 0 <= j /\ j < n THEN arr[j + 1]
        ELSE IF gather_mode = "fill" THEN NaN
        ELSE IF j < 0 THEN arr[1] ELSE arr[n]

\* fp[i0, i1], numbered from 0
JIdx2(fp, i0, i1) ==
    LET n0 == Len(fp)
        j0 == IF i0 < 0 THEN i0 + n0 ELSE i0
        c0 == IF j0 < 0 THEN 0 ELSE IF j0 >= n0 THEN n0 - 1 ELSE j0
    IN  IF (j0 < 0 \/ j0 >= n0) /\ gather_mode = "fill" THEN NaN
        ELSE JIdx(fp[c0 + 1], i1)

\* jnp.searchsorted(xp, x, side='right'): the number of elements <= x
searchsorted_right(xp, x) == Cardinality({k \in 1..Len(xp) : FLe(xp[k], x)})

\* il = jnp.searchsorted(xp, x, side='right') - 1
il_of(xp, x) == searchsorted_right(xp, x) - 1

\* wl = (xp[il+1] - x) / (xp[il+1] - xp[il])
wl_of(xp, x) ==
    LET il == il_of(xp, x)
    IN  FDiv(FSub(JIdx(xp, il + 1), x), FSub(JIdx(xp, il + 1), JIdx(xp, il)))

\* fp[il] * wl + fp[il+1] * (1 - wl)
lin1(fp, il, wl) == FAdd(FMul(JIdx(fp, il), wl), FMul(JIdx(fp, il + 1), FSub(R(1), wl)))

interp1d(fp, xp, x) == lin1(fp, il_of(xp, x), wl_of(xp, x))

\* fp[i0l,i1l]*wl0*wl1 + fp[i0l+1,i1l]*wr0*wl1 + fp[i0l,i1l+1]*wl0*wr1 + fp[i0l+1,i1l+1]*wr0*wr1
lin2(fp, i0l, wl0, i1l, wl1) ==
    LET wr0 == FSub(R(1), wl0)
        wr1 == FSub(R(1), wl1)
    IN  FAdd(FAdd(FAdd(FMul(FMul(JIdx2(fp, i0l, i1l), wl0), wl1),
                       FMul(FMul(JIdx2(fp, i0l + 1, i1l), wr0), wl1)),
                  FMul(FMul(JIdx2(fp, i0l, i1l + 1), wl0), wr1)),
             FMul(FMul(JIdx2(fp, i0l + 1, i1l + 1), wr0), wr1))

\* one query point x01 = <<x0, x1>> (the function is vmapped over the batch)
interp2d(fp, x0p, x1p, x01) ==
    lin2(fp, il_of(x0p, x01[1]), wl_of(x0p, x01[1]), il_of(x1p, x01[2]), wl_of(x1p, x01[2]))

\* ---- the two functions on tables and in-range queries drawn from bounded sets
AbscGrid == {0, 1, 3}

MaxFp == 1

\* sorted abscissas of at least 2 points
Abscissas == {[k \in 1..Cardinality(S) |-> R(SortedSeq(S)[k])] : S \in {T \in SUBSET AbscGrid : Cardinality(T) >= 2}}

\* queries: the grid abscissa points and points between them
IpQueries == {R(0), Rat(1, 2), R(1), R(2), R(3)}

InRange(x, xp) == FLe(xp[1], x) /\ FLe(x, xp[Len(xp)])

FpValues == {R(v) : v \in 0..MaxFp}

IpInit ==
    \/ \E xp \in Abscissas, x \in IpQueries :
        /\ InRange(x, xp)
        /\ \E fp \in [1..Len(xp) -> FpValues] :
            ip = [op |-> "args", fn |-> "interp1d", fp |-> fp, xp |-> xp, x |-> x]
    \/ \E x0p \in Abscissas, x1p \in Abscissas, x0 \in IpQueries, x1 \in IpQueries :
        /\ InRange(x0, x0p) /\ InRange(x1, x1p)
        /\ \E fp \in [1..Len(x0p) -> [1..Len(x1p) -> FpValues]] :
            ip = [op |-> "args", fn |-> "interp2d", fp |-> fp, x0p |-> x0p, x1p |-> x1p,
                  x01 |-> <<x0, x1>>]

Interp1d ==
    /\ ip.op = "args" /\ ip.fn = "interp1d"
    /\ ip' = [ip EXCEPT !.op = "returned"] @@ [ret |-> interp1d(ip.fp, ip.xp, ip.x)]

Interp2d ==
    /\ ip.op = "args" /\ ip.fn = "interp2d"
    /\ ip' = [ip EXCEPT !.op = "returned"] @@ [ret |-> interp2d(ip.fp, ip.x0p, ip.x1p, ip.x01)]

(***************************************************************************)
(* BatchInterpolator (interpolators_jax.py 65-176)                         *)
(***************************************************************************)
None == <<>>

\* the lengths of the axes E_in and out of the table
NEin == 2

NOut == 2

\* factor = 1.00001 in the source.  The model keeps the form of the clip
\* bounds, min * factor and max / factor, with the factor 11/10: products of
\* three interpolation weights then stay within the integers of the checker.
factor == Rat(11, 10)

\* self.data[r, e, n, x, o], numbered from 1
data(r, e, n, x, o) == R(r * e + 2 * n * x + o * (e + n) + r * x * o)

ArrMin(a) == CHOOSE m \in {a[k] : k \in 1..Len(a)} : \A k \in 1..Len(a) : FLe(m, a[k])

ArrMax(a) == CHOOSE m \in {a[k] : k \in 1..Len(a)} : \A k \in 1..Len(a) : FLe(a[k], m)

\* v_is_within for one value: v >= min(absc) and v <= max(absc)
is_within_strict(v, absc) == FLt(ArrMin(absc), v) /\ FLt(v, ArrMax(absc))

is_within(v, absc) == FLe(ArrMin(absc), v) /\ FLe(v, ArrMax(absc))

\* v_is_within for a vector: jnp.all(...) and jnp.all(...)
v_is_within(v, absc) == \A k \in 1..Len(v) : is_within(v[k], absc)

\* jnp.clip(v, jnp.min(absc) * factor, jnp.max(absc) / factor)
clip_inward(v, absc) == Clip(v, FMul(ArrMin(absc), factor), FDiv(ArrMax(absc), factor))

\* jnp.einsum('e,renxo->rnxo', in_spec, self.data)
einsum(in_spec, abscs) ==
    [r \in 1..Len(abscs.rs) |-> [n \in 1..Len(abscs.nBs) |-> [x \in 1..Len(abscs.x) |->
        [o \in 1..NOut |-> SumSeq([e \in 1..NEin |-> FMul(in_spec[e], data(r, e, n, x, o))])]]]]

\* jnp.all(in_spec == self.fixed_in_spec): never true of None
in_spec_first_is_fixed(in_spec, fixed_in_spec) ==
    fixed_in_spec # None /\ in_spec[1] = fixed_in_spec[1]

in_spec_is_fixed(in_spec, fixed_in_spec) ==
    /\ fixed_in_spec # None
    /\ \A e \in 1..Len(in_spec) : ~IsNaN(in_spec[e]) /\ in_spec[e] = fixed_in_spec[e]

\* set_fixed_in_spec: the attributes it assigns
set_fixed_in_spec(slf, in_spec) ==
    [slf EXCEPT !.fixed_in_spec = in_spec,
                !.fixed_in_spec_data = einsum(in_spec, slf.abscs)]

\* int(jnp.ceil(len(x_s) / sum_batch_size))
split_n_of(len, sum_batch_size) == (len + sum_batch_size - 1) \div sum_batch_size

\* jnp.array_split(ary, k)[i], i from 1: the first len % k sections hold
\* len // k + 1 elements, the others len // k
array_split(ary, k, i) ==
    LET each == Len(ary) \div k
        extras == Len(ary) % k
        start == (i - 1) * each + (IF i - 1 < extras THEN i - 1 ELSE extras)
        size == each + (IF i <= extras THEN 1 ELSE 0)
    IN  SubSeq(ary, start + 1, start + size)

\* sum_weight_batches[i_batch], i_batch from 1
sum_weight_batch_from_start(sum_weight, split_n, i_batch) ==
    SubSeq(sum_weight, 1, Len(array_split(sum_weight, split_n, i_batch)))

sum_weight_batch(sum_weight, split_n, i_batch) == array_split(sum_weight, split_n, i_batch)

\* jnp.dot(w, v) and jnp.sum(v, axis=0) for one output channel
Dot(w, v) == SumSeq([k \in 1..Len(v) |-> FMul(w[k], v[k])])

\* data_at_rs = interp1d(in_spec_data, abscs['rs'], rs): the index and the
\* weight are computed once and applied to every entry [n, x, o]
data_at_rs_of(in_spec_data, abscs, rs) ==
    LET il == il_of(abscs.rs, rs)
        wl == wl_of(abscs.rs, rs)
    IN  [n \in 1..Len(abscs.nBs) |-> [x \in 1..Len(abscs.x) |-> [o \in 1..NOut |->
            lin1([r \in 1..Len(abscs.rs) |-> in_spec_data[r][n][x][o]], il, wl)]]]

\* interp2d(data_at_rs, abscs['nBs'], abscs['x'], nBs_x_in)[k]: one row per
\* query, the indices and weights of a query applied to every channel o
interp2d_row(data_at_rs, abscs, x01) ==
    LET i0l == il_of(abscs.nBs, x01[1])
        wl0 == wl_of(abscs.nBs, x01[1])
        i1l == il_of(abscs.x, x01[2])
        wl1 == wl_of(abscs.x, x01[2])
    IN  [o \in 1..NOut |->
            lin2([n \in 1..Len(abscs.nBs) |-> [x \in 1..Len(abscs.x) |-> data_at_rs[n][x][o]]],
                 i0l, wl0, i1l, wl1)]

interp2d_batch(data_at_rs, abscs, nBs_x_in) ==
    [k \in 1..Len(nBs_x_in) |-> interp2d_row(data_at_rs, abscs, nBs_x_in[k])]

\* the loop over the batches of the sum_result branch
RECURSIVE sum_batches(_, _, _, _, _, _)
sum_batches(data_at_rs, abscs, nBs_x_in, sum_weight, split_n, i_batch) ==
    IF i_batch = 0 THEN [o \in 1..NOut |-> R(0)]
    ELSE LET result == sum_batches(data_at_rs, abscs, nBs_x_in, sum_weight, split_n, i_batch - 1)
             interp_result == interp2d_batch(data_at_rs, abscs, array_split(nBs_x_in, split_n, i_batch))
         IN  [o \in 1..NOut |->
                 FAdd(result[o],
                      IF sum_weight = None
                      THEN SumSeq([k \in 1..Len(interp_result) |-> interp_result[k][o]])
                      ELSE Dot(sum_weight_batch(sum_weight, split_n, i_batch),
                               [k \in 1..Len(interp_result) |-> interp_result[k][o]]))]

\* __call__: what it raises, the query it interpolates at, whether it takes
\* the stored contraction, and what it returns
BatchInterpolator_call(slf, a) ==
    LET clip == a.out_of_bounds_action = "clip"
        rs == IF clip THEN clip_inward(a.rs, slf.abscs.rs) ELSE a.rs
        x_s == IF clip THEN [k \in 1..Len(a.x_s) |-> clip_inward(a.x_s[k], slf.abscs.x)] ELSE a.x_s
        nBs_s == IF clip THEN [k \in 1..Len(a.nBs_s) |-> clip_inward(a.nBs_s[k], slf.abscs.nBs)]
                 ELSE a.nBs_s
        raised == IF clip THEN "none"
                  ELSE IF ~is_within(rs, slf.abscs.rs) THEN "ValueError: rs out of bounds."
                  ELSE IF ~v_is_within(x_s, slf.abscs.x) THEN "ValueError: x_s out of bounds."
                  ELSE IF ~v_is_within(nBs_s, slf.abscs.nBs) THEN "ValueError: nBs_s out of bounds."
                  ELSE "none"
        reused == in_spec_is_fixed(a.in_spec, slf.fixed_in_spec)
        in_spec_data == IF reused THEN slf.fixed_in_spec_data ELSE einsum(a.in_spec, slf.abscs)
        data_at_rs == data_at_rs_of(in_spec_data, slf.abscs, rs)
        nBs_x_in == [k \in 1..Len(x_s) |-> <<nBs_s[k], x_s[k]>>]
        split_n == split_n_of(Len(x_s), a.sum_batch_size)
    IN  IF raised # "none"
        THEN [raised |-> raised, rs |-> rs, x_s |-> x_s, nBs_s |-> nBs_s,
              reused |-> FALSE, contracted |-> FALSE, interpolated |-> FALSE, result |-> None]
        ELSE [raised |-> raised, rs |-> rs, x_s |-> x_s, nBs_s |-> nBs_s,
              reused |-> reused, contracted |-> ~reused, interpolated |-> TRUE,
              result |-> IF ~a.sum_result
                         THEN interp2d_batch(data_at_rs, slf.abscs, nBs_x_in)
                         ELSE sum_batches(data_at_rs, slf.abscs, nBs_x_in, a.sum_weight,
                                          split_n, split_n)]

\* ---- tables, spectra and queries the interpolator is run on
RsAxes == {<<R(1), R(2), R(4)>>}

NBsAxes == {<<R(1), R(2)>>}

XAxes == {<<R(0), R(1)>>}

\* input spectra over E_in: one photon in the first bin, and e photons in bin e
InSpecs == {[e \in 1..NEin |-> IF e = 1 THEN R(1) ELSE R(0)], [e \in 1..NEin |-> R(e)]}

MaxBatch == 2

Mid(absc) == FDiv(FAdd(absc[1], absc[2]), R(2))

Below(absc) == FSub(ArrMin(absc), R(1))

Above(absc) == FAdd(ArrMax(absc), R(1))

\* rs: below the axis, between its first two points, on its last point, above it
RsQueries(absc) == {Below(absc), Mid(absc), ArrMax(absc), Above(absc)}

\* query points <<nBs, x>>: inside, on a corner (first nBs, last x), and
\* beyond an end of one axis
BatchPoints(abscs) ==
    {<<Mid(abscs.nBs), Mid(abscs.x)>>, <<ArrMin(abscs.nBs), ArrMax(abscs.x)>>,
     <<Above(abscs.nBs), Mid(abscs.x)>>, <<Mid(abscs.nBs), Below(abscs.x)>>}

Batches(abscs) == UNION {[1..len -> BatchPoints(abscs)] : len \in 1..MaxBatch}

\* sum_result, sum_weight (None, or the weight k on query k), sum_batch_size
SumModes(len) ==
    {[sum_result |-> FALSE, sum_weight |-> None, sum_batch_size |-> 1]}
    \cup {[sum_result |-> TRUE, sum_weight |-> w, sum_batch_size |-> b] :
            w \in {None, [k \in 1..len |-> R(k)]}, b \in 1..MaxBatch}

CallArgs(abscs) ==
    {[rs |-> rs, in_spec |-> in_spec,
      nBs_s |-> [k \in 1..Len(pts) |-> pts[k][1]], x_s |-> [k \in 1..Len(pts) |-> pts[k][2]],
      sum_result |-> m.sum_result, sum_weight |-> m.sum_weight, sum_batch_size |-> m.sum_batch_size,
      out_of_bounds_action |-> act] :
        rs \in RsQueries(abscs.rs), in_spec \in {[e \in 1..NEin |-> R(e)]}, pts \in Batches(abscs),
        m \in UNION {SumModes(len) : len \in 1..MaxBatch}, act \in {"error", "clip"}}

\* the arguments of a well-formed call: one weight per query
WellFormed(a) == a.sum_weight = None \/ Len(a.sum_weight) = Len(a.x_s)

\* the calls of a sequence of calls: single in-range queries
SeqArgs(abscs) ==
    {[rs |-> rs, in_spec |-> in_spec, nBs_s |-> <<Mid(abscs.nBs)>>, x_s |-> <<x>>,
      sum_result |-> FALSE, sum_weight |-> None, sum_batch_size |-> 1,
      out_of_bounds_action |-> act] :
        rs \in {Mid(abscs.rs)}, in_spec \in InSpecs, x \in {Mid(abscs.x), Above(abscs.x)},
        act \in {"error", "clip"}}

\* __init__: fixed_in_spec = None, fixed_in_spec_data = None
BatchInit ==
    \E rs \in RsAxes, nBs \in NBsAxes, x \in XAxes :
        self = [abscs |-> [rs |-> rs, nBs |-> nBs, x |-> x],
                fixed_in_spec |-> None, fixed_in_spec_data |-> None]

SetFixedInSpec ==
    /\ \E in_spec \in InSpecs : self' = set_fixed_in_spec(self, in_spec)
    /\ UNCHANGED call

\* __call__(**a); the record keeps the input spectrum of the call before it
BatchCall(a) ==
    /\ call' = [op |-> "returned", args |-> a, out |-> BatchInterpolator_call(self, a),
                prev_in_spec |-> IF call.op = "returned" THEN call.args.in_spec ELSE None]
    /\ UNCHANGED self

\* one call, on arguments drawn at the start
CallOnce ==
    /\ call.op = "args"
    /\ BatchCall(call.args)

\* one more call of a sequence of calls
CallAgain == \E a \in SeqArgs(self.abscs) : BatchCall(a)

(***************************************************************************)
(* Specifications                                                          *)
(***************************************************************************)
\* evolve()
Init ==
    /\ EvolveInit
    /\ zed = Idle /\ sx = Idle /\ ip = Idle /\ self = Idle /\ call = Idle /\ gather_mode = "clip"

Next ==
    \/ CheckConfig /\ UNCHANGED <<zed, sx, ip, self, call, gather_mode>>
    \/ Setup /\ UNCHANGED <<zed, sx, ip, self, call, gather_mode>>
    \/ BeginStep /\ UNCHANGED <<zed, sx, ip, self, call, gather_mode>>
    \/ Shell /\ UNCHANGED <<zed, sx, ip, self, call, gather_mode>>
    \/ BathAndDM /\ UNCHANGED <<zed, sx, ip, self, call, gather_mode>>
    \/ P21cStep /\ UNCHANGED <<zed, sx, ip, self, call, gather_mode>>
    \/ PrepNext /\ UNCHANGED <<zed, sx, ip, self, call, gather_mode>>
    \/ EndLoop /\ UNCHANGED <<zed, sx, ip, self, call, gather_mode>>

Spec == Init /\ [][Next]_vars

\* evolve(z_start=10, z_end=9, zplusone_step_factor=1.01)
InitScenario ==
    /\ ScenarioInit
    /\ zed = Idle /\ sx = Idle /\ ip = Idle /\ self = Idle /\ call = Idle /\ gather_mode = "clip"

NextScenario ==
    \/ CheckConfig /\ UNCHANGED <<zed, sx, ip, self, call, gather_mode>>
    \/ Setup /\ UNCHANGED <<zed, sx, ip, self, call, gather_mode>>
    \/ BeginStep /\ UNCHANGED <<zed, sx, ip, self, call, gather_mode>>
    \/ ShellByRadius /\ UNCHANGED <<zed, sx, ip, self, call, gather_mode>>
    \/ BathAndDM /\ UNCHANGED <<zed, sx, ip, self, call, gather_mode>>
    \/ P21cStep /\ UNCHANGED <<zed, sx, ip, self, call, gather_mode>>
    \/ PrepNext /\ UNCHANGED <<zed, sx, ip, self, call, gather_mode>>
    \/ EndLoop /\ UNCHANGED <<zed, sx, ip, self, call, gather_mode>>

SpecScenario == InitScenario /\ [][NextScenario]_vars

\* get_z_edges()
InitZ ==
    /\ ZInit /\ EvolveIdle
    /\ sx = Idle /\ ip = Idle /\ self = Idle /\ call = Idle /\ gather_mode = "clip"

NextZ ==
    \/ GetZEdgesAppend /\ UNCHANGED <<EvolveVars, sx, ip, self, call, gather_mode>>
    \/ GetZEdgesReturn /\ UNCHANGED <<EvolveVars, sx, ip, self, call, gather_mode>>

SpecZ == InitZ /\ [][NextZ]_vars

\* get_z_edges() keeps running until it returns: weak fairness of NextZ,
\* WF_vars(NextZ), written out as []<>(~ENABLED <<NextZ>>_vars) \/ []<><<NextZ>>_vars.
\* NextZ is enabled exactly while the while loop has not been left: one of
\* the two branches on ZLoopCond is taken and either changes zed.
SpecZFair == SpecZ /\ ([]<>(zed.op # "loop") \/ []<><<NextZ>>_vars)

\* get_z_edges() in double precision just above z = -1; the interpreter
\* keeps executing the loop until the function returns or raises
InitZUlp ==
    /\ ZUlpInit /\ EvolveIdle
    /\ sx = Idle /\ ip = Idle /\ self = Idle /\ call = Idle /\ gather_mode = "clip"

NextZUlp ==
    \/ GetZEdgesUlpAppend /\ UNCHANGED <<EvolveVars, sx, ip, self, call, gather_mode>>
    \/ GetZEdgesUlpMemoryError /\ UNCHANGED <<EvolveVars, sx, ip, self, call, gather_mode>>
    \/ GetZEdgesUlpReturn /\ UNCHANGED <<EvolveVars, sx, ip, self, call, gather_mode>>

SpecZUlp == InitZUlp /\ [][NextZUlp]_vars /\ WF_vars(NextZUlp)

\* split_xray()
InitSx ==
    /\ SxInit /\ EvolveIdle
    /\ zed = Idle /\ ip = Idle /\ self = Idle /\ call = Idle /\ gather_mode = "clip"

NextSx == SplitXray /\ UNCHANGED <<EvolveVars, zed, ip, self, call, gather_mode>>

SpecSx == InitSx /\ [][NextSx]_vars

\* interp1d(), interp2d()
InitIp ==
    /\ IpInit /\ EvolveIdle
    /\ zed = Idle /\ sx = Idle /\ self = Idle /\ call = Idle /\ gather_mode \in GatherModes

NextIp ==
    \/ Interp1d /\ UNCHANGED <<EvolveVars, zed, sx, self, call, gather_mode>>
    \/ Interp2d /\ UNCHANGED <<EvolveVars, zed, sx, self, call, gather_mode>>

SpecIp == InitIp /\ [][NextIp]_vars

\* BatchInterpolator: one __call__
InitCall ==
    /\ BatchInit /\ EvolveIdle
    /\ \E a \in CallArgs(self.abscs) : WellFormed(a) /\ call = [op |-> "args", args |-> a]
    /\ zed = Idle /\ sx = Idle /\ ip = Idle /\ gather_mode \in GatherModes

NextCall == CallOnce /\ UNCHANGED <<EvolveVars, zed, sx, ip, gather_mode>>

SpecCall == InitCall /\ [][NextCall]_vars

\* BatchInterpolator: sequences of calls
InitCalls ==
    /\ BatchInit /\ EvolveIdle
    /\ call = [op |-> "none"]
    /\ zed = Idle /\ sx = Idle /\ ip = Idle /\ gather_mode \in GatherModes

NextCalls ==
    \/ SetFixedInSpec /\ UNCHANGED <<EvolveVars, zed, sx, ip, gather_mode>>
    \/ CallAgain /\ UNCHANGED <<EvolveVars, zed, sx, ip, gather_mode>>

SpecCalls == InitCalls /\ [][NextCalls]_vars

(***************************************************************************)
(* Properties of the driver loop                                           *)
(***************************************************************************)
Events == 1..Len(trace)

\* the number of calls `op` made in step i for donor shell k
Count(op, i, k) == Cardinality({a \in Events : trace[a] = Call(op, i, k)})

\* shell k was folded into the bath in a step before step i
FoldedBefore(k, i) == \E a \in Events : trace[a].op = "fold" /\ trace[a].i_z_shell = k /\ trace[a].i_z < i

\* the steps whose shell loop is over
ShellLoopDone == {i \in 0..i_z : i < i_z \/ pc \in {"p21c", "prep"}}

\* no call touches shell k after the call that folded it
FoldIsFinal ==
    \A a \in Events, b \in Events :
        (trace[a].op = "fold" /\ a < b) => trace[b].i_z_shell # trace[a].i_z_shell

\* C1: the consumption pointer i_xray_loop_start never decreases from one step
\* to the next, and once shell k has been folded into the bath in step i it is
\* neither retrieved nor folded again, in step i or in any later step,
\* whatever box-averaged flags the cache reports.
C1_PointerMonotoneFoldOnce ==
    /\ []FoldIsFinal
    /\ [][i_xray_loop_start' >= i_xray_loop_start]_vars

\* a shell was folded in some step and at least two later steps have run
C1_Witness ==
    /\ pc = "done"
    /\ debug_flags = {}
    /\ \E a \in Events : trace[a].op = "fold" /\ trace[a].i_z + 2 < i_z

\* C2: in every step i, every donor shell k < i not folded into the bath in an
\* earlier step is retrieved exactly once (as stated: whatever the pattern of
\* box-averaged flags).
C2_EveryUnfoldedShellRetrieved ==
    \A i \in ShellLoopDone : \A k \in 0..(i - 1) :
        ~FoldedBefore(k, i) => Count("get_annulus_data", i, k) = 1

(***************************************************************************)
(* Properties of get_z_edges                                               *)
(***************************************************************************)
\* C3: the returned sequence starts at z_start and ends at z_end, and every
\* consecutive pair after the (clipped) first element satisfies
\* (1 + z_i) = f * (1 + z_{i+1}).
C3_EdgesSpanAndRatio ==
    zed.op = "returned" =>
        /\ zed.ret[1] = zed.z_max
        /\ zed.ret[Len(zed.ret)] = zed.z_min
        /\ \A i \in 2..(Len(zed.ret) - 1) :
            FAdd(R(1), zed.ret[i]) = FMul(zed.f, FAdd(R(1), zed.ret[i + 1]))

\* a returned sequence with interior pairs whose first element was clipped
C3_Witness ==
    /\ zed.op = "returned"
    /\ Len(zed.ret) >= 4
    /\ FLt(zed.z_max, zed.z_s[Len(zed.z_s)])

(***************************************************************************)
(* Properties of split_xray                                                *)
(***************************************************************************)
\* C4: the two parts add up to the input bin by bin, each bin is non-zero in
\* at most one part, and the input array is not modified.
C4_SplitIsPartition ==
    sx.op = "returned" =>
        /\ \A k \in 1..Len(sx.phot_N_in) :
            /\ sx.bath_N[k] + sx.xray_N[k] = sx.phot_N_in[k]
            /\ sx.bath_N[k] = 0 \/ sx.xray_N[k] = 0
        /\ sx.phot_N = sx.phot_N_in

\* a split with non-empty bins below, inside and above the band
C4_Witness ==
    /\ sx.op = "returned"
    /\ \E a, b, c \in 1..Len(sx.phot_N_in) :
        /\ sx.phot_eng[a] < ex_lo /\ sx.bath_N[a] > 0
        /\ sx.phot_eng[b] > ex_lo /\ sx.phot_eng[b] < ex_hi /\ sx.xray_N[b] > 0
        /\ sx.phot_eng[c] > ex_hi /\ sx.bath_N[c] > 0

\* C5: the X-ray part holds exactly the bins whose energy lies in the closed
\* band [100 eV, 10 keV], the bath part every other bin (as stated: a bin at
\* exactly 100 eV and a bin at exactly 10 keV both go to the X-ray part).
C5_ClosedBand ==
    sx.op = "returned" =>
        \A k \in 1..Len(sx.phot_N_in) :
            IF ex_lo <= sx.phot_eng[k] /\ sx.phot_eng[k] <= ex_hi
            THEN sx.xray_N[k] = sx.phot_N_in[k] /\ sx.bath_N[k] = 0
            ELSE sx.bath_N[k] = sx.phot_N_in[k] /\ sx.xray_N[k] = 0

(***************************************************************************)
(* Properties of interp1d and interp2d                                     *)
(***************************************************************************)
\* the positions of the abscissa points equal to x
GridIndex(xp, x) == {k \in 1..Len(xp) : xp[k] = x}

\* C6: a query that coincides with a grid abscissa point returns exactly the
\* tabulated value, for every grid point (as stated: the first and the last
\* point of an axis and the corners on the upper edges included).
C6_GridValuesExact ==
    ip.op = "returned" =>
        /\ ip.fn = "interp1d" =>
            \A k \in GridIndex(ip.xp, ip.x) : ip.ret = ip.fp[k]
        /\ ip.fn = "interp2d" =>
            \A k0 \in GridIndex(ip.x0p, ip.x01[1]), k1 \in GridIndex(ip.x1p, ip.x01[2]) :
                ip.ret = ip.fp[k0][k1]

(***************************************************************************)
(* Properties of BatchInterpolator                                         *)
(***************************************************************************)
Returned == call.op = "returned"

Lo(absc) == absc[1]

Hi(absc) == absc[Len(absc)]

\* v is below the first or above the last point of the sorted axis
Outside(v, absc) == FLt(v, Lo(absc)) \/ FLt(Hi(absc), v)

AnyOutside(a, abscs) ==
    \/ Outside(a.rs, abscs.rs)
    \/ \E k \in 1..Len(a.x_s) : Outside(a.x_s[k], abscs.x)
    \/ \E k \in 1..Len(a.nBs_s) : Outside(a.nBs_s[k], abscs.nBs)

\* the numbers of a returned value: 2 per query, or 2 for a summed result
ResultValues(out, a) ==
    IF a.sum_result THEN {out.result[o] : o \in 1..NOut}
    ELSE {out.result[k][o] : k \in 1..Len(a.x_s), o \in 1..NOut}

\* C7: under out_of_bounds_action='error' the call raises ValueError exactly
\* when rs or an element of x_s or of nBs_s lies outside its axis (a query on
\* the first or last abscissa point is accepted); a raising call contracts
\* and interpolates nothing and leaves fixed_in_spec and fixed_in_spec_data
\* as they were.
C7_ErrorIffOutside ==
    /\ [](Returned /\ call.args.out_of_bounds_action = "error" =>
            /\ call.out.raised # "none" <=> AnyOutside(call.args, self.abscs)
            /\ call.out.raised # "none" =>
                ~call.out.contracted /\ ~call.out.interpolated /\ call.out.result = None)
    /\ [][call' # call /\ call'.out.raised # "none" => self' = self]_vars

\* a call refused for nBs_s alone, and a call on the last abscissa points accepted
C7_Witness ==
    /\ Returned /\ call.args.out_of_bounds_action = "error"
    /\ \/ /\ call.out.raised = "ValueError: nBs_s out of bounds."
          /\ call.args.rs = Hi(self.abscs.rs)
       \/ /\ call.out.raised = "none"
          /\ call.args.rs = Hi(self.abscs.rs)
          /\ \E k \in 1..Len(call.args.x_s) : call.args.x_s[k] = Hi(self.abscs.x)

StrictlyInside(v, absc) == FLt(Lo(absc), v) /\ FLt(v, Hi(absc))

\* C8 as stated: under 'clip' the call never raises and every value it
\* interpolates at lies strictly inside [min, max] of its axis.
C8_ClipStrictlyInside ==
    Returned /\ call.args.out_of_bounds_action = "clip" =>
        /\ call.out.raised = "none"
        /\ StrictlyInside(call.out.rs, self.abscs.rs)
        /\ \A k \in 1..Len(call.out.x_s) :
            /\ StrictlyInside(call.out.x_s[k], self.abscs.x)
            /\ StrictlyInside(call.out.nBs_s[k], self.abscs.nBs)

\* v lies in [min * factor, max / factor]; on an axis with min >= 0 that is
\* within [min, max): below max, and above min unless min = 0
ClippedInto(v, absc) ==
    /\ FLe(FMul(Lo(absc), factor), v) /\ FLe(v, FDiv(Hi(absc), factor))
    /\ FLe(Lo(absc), v) /\ FLt(v, Hi(absc))
    /\ Lo(absc) # R(0) => FLt(Lo(absc), v)

\* What the clip does ensure on the axes of the model (min >= 0), next to C8:
\* the call never raises; every value it interpolates at lies in
\* [min * factor, max / factor] of its axis, strictly below max and not below
\* min (strictly above min when min > 0); every number of the result is finite.
C8_ClipIntoScaledRange ==
    Returned /\ call.args.out_of_bounds_action = "clip" =>
        /\ call.out.raised = "none"
        /\ ClippedInto(call.out.rs, self.abscs.rs)
        /\ \A k \in 1..Len(call.out.x_s) :
            /\ ClippedInto(call.out.x_s[k], self.abscs.x)
            /\ ClippedInto(call.out.nBs_s[k], self.abscs.nBs)
        /\ \A v \in ResultValues(call.out, call.args) : IsFinite(v)

\* a clip call with rs above its axis, an x below and an nBs above theirs
C8_Witness ==
    /\ Returned /\ call.args.out_of_bounds_action = "clip"
    /\ FLt(Hi(self.abscs.rs), call.args.rs)
    /\ \E k \in 1..Len(call.args.x_s) : FLt(call.args.x_s[k], Lo(self.abscs.x))
    /\ \E k \in 1..Len(call.args.x_s) : FLt(Hi(self.abscs.nBs), call.args.nBs_s[k])

\* C9 as stated: a call takes the stored contraction exactly when its input
\* spectrum equals that of the most recent preceding call.
C9_ReuseIffSameAsLastCall ==
    Returned /\ call.out.raised = "none" =>
        (call.out.reused <=> (call.prev_in_spec # None /\ call.args.in_spec = call.prev_in_spec))

\* C9, amended: a call that passes the bounds check takes the stored
\* contraction exactly when its input spectrum equals fixed_in_spec, which
\* only set_fixed_in_spec assigns (a call never does, so the spectra of
\* earlier calls play no part), and contracts anew otherwise; the stored
\* contraction is the contraction of fixed_in_spec.
C9_ReuseIffFixedInSpec ==
    /\ [](self.fixed_in_spec # None => self.fixed_in_spec_data = einsum(self.fixed_in_spec, self.abscs))
    /\ [][call' # call =>
            /\ self' = self
            /\ call'.out.raised = "none" =>
                /\ call'.out.reused <=> call'.args.in_spec = self.fixed_in_spec
                /\ call'.out.contracted <=> ~call'.out.reused]_vars

\* a call that repeats the spectrum of the call before it and contracts anew,
\* and a call that takes the stored contraction of another spectrum than the
\* call before it
C9_Witness ==
    /\ Returned /\ call.out.raised = "none" /\ call.prev_in_spec # None
    /\ \/ call.args.in_spec = call.prev_in_spec /\ ~call.out.reused /\ self.fixed_in_spec # None
       \/ call.args.in_spec # call.prev_in_spec /\ call.out.reused

\* sum_weight, or a weight of one per query
WeightsOf(a) == IF a.sum_weight = None THEN [k \in 1..Len(a.x_s) |-> R(1)] ELSE a.sum_weight

\* the rows of the same call with sum_result=False, weighted and added up
SumOfRows(slf, a) ==
    LET rows == BatchInterpolator_call(slf, [a EXCEPT !.sum_result = FALSE]).result
    IN  [o \in 1..NOut |-> SumSeq([k \in 1..Len(rows) |-> FMul(WeightsOf(a)[k], rows[k][o])])]

Mismatch == cfg.zplusone_step_factor # cfg.exp_dlnz

\* C11: when the step factor does not fit the spacing of the loaded table,
\* evolve raises ValueError before the loop starts: no transfer-function
\* wrapper is built, the annulus cache is neither created nor cleared, the
\* external simulator is never called, no step runs and no record is made.
C11_MismatchRaisesBeforeLoop ==
    Mismatch /\ pc # "start" =>
        /\ pc = "raised"
        /\ evolve_exc = "ValueError: zplusone_step_factor and tf_version mismatch"
        /\ trace = <<>> /\ xray_cacher = <<>> /\ z_edges = <<>>
        /\ i_z = 0 /\ records = <<>> /\ evolve_ret = <<>>

\* a run refused for its step factor
C11_Witness ==
    /\ Mismatch /\ pc = "raised"
    /\ evolve_exc = "ValueError: zplusone_step_factor and tf_version mismatch"

\* the table returned has one row per step of the loop: row i holds the
\* z_next of step i, the rows run down to z_end
TableOfRun ==
    /\ Len(evolve_ret) = Len(EdgesOf(cfg)) - 2
    /\ Len(evolve_ret) = i_z
    /\ \A i \in 1..Len(evolve_ret) : evolve_ret[i].z = z_edges[i + 1]
    /\ \A i \in 1..(Len(evolve_ret) - 1) : FLt(evolve_ret[i + 1].z, evolve_ret[i].z)
    /\ Len(evolve_ret) >= 1 => evolve_ret[Len(evolve_ret)].z = R(cfg.z_end)

\* C12: a run on a valid configuration (step factor > 1 that fits the table,
\* z_end < z_start) ends by returning a table with exactly one row per
\* executed step, edges - 2 rows, row i holding the z_next of step i, 'z'
\* strictly decreasing down to z_end (as stated: configurations whose edge
\* sequence has only two edges included).
C12_ValidRunReturnsTable ==
    /\ ~Mismatch => pc # "raised"
    /\ pc = "done" => TableOfRun

\* what holds of C12 for runs with three edges or more
C12_TableOfLongerRuns ==
    /\ (~Mismatch /\ pc = "raised") => Len(EdgesOf(cfg)) = 2
    /\ pc = "done" => TableOfRun /\ Len(evolve_ret) >= 1

(***************************************************************************)
(* The run z_start = 10, z_end = 9, step factor 1.01                       *)
(***************************************************************************)
\* the donor redshifts the cache holds an entry for
CacheKeys == {xray_cacher[k].z : k \in 1..Len(xray_cacher)}

\* C13 as stated: the run executes exactly two steps and ends with exactly
\* one entry in the annulus cache.
C13_TwoStepsOneEntry ==
    pc = "done" => Len(evolve_ret) = 2 /\ Cardinality(CacheKeys) = 1 /\ Len(xray_cacher) = 1

\* C13, amended: get_z_edges yields eleven edges, the first is dropped, and
\* the run executes exactly nine steps; the cache is cleared once, at the
\* start, cache() is called once per executed step, keyed at the z_current of
\* the step, and at the end of the run the cache holds nine entries, keyed at
\* the nine edges strictly between z_start and z_end.
C13_NineStepsNineEntries ==
    /\ Count("clear_cache", NoShell, NoShell) = (IF pc \in {"start", "setup"} THEN 0 ELSE 1)
    /\ Len(xray_cacher) = i_z
    /\ \A i \in 0..(i_z - 1) : Count("cache", i, NoShell) = 1
    /\ CacheKeys = {z_edges[i] : i \in 1..i_z}
    /\ pc = "done" =>
        /\ Len(EdgesOf(cfg)) = 11
        /\ i_z = 9 /\ Len(evolve_ret) = 9
        /\ Cardinality(CacheKeys) = 9
        /\ \A z \in CacheKeys : FLt(R(cfg.z_end), z) /\ FLt(z, R(cfg.z_start))

\* the run has ended, and it folded shells on its way
C13_Witness ==
    /\ pc = "done" /\ cfg.z_start = 10 /\ cfg.z_end = 9
    /\ i_xray_loop_start > 0

(***************************************************************************)
(* Properties of the order of calls within a step                          *)
(***************************************************************************)
\* the steps that have begun, and those past their injections, past the
\* simulator step, and complete
StepsBegun == {i \in 0..i_z : i < i_z \/ pc \in {"xray", "p21c", "prep"}}

StepsInjected == {i \in 0..i_z : i < i_z \/ pc \in {"p21c", "prep"}}

StepsSimulated == {i \in 0..i_z : i < i_z \/ pc = "prep"}

StepsComplete == 0..(i_z - 1)

\* the calls that add to the accumulators of the transfer-function wrapper
IsInjection(e) == e.op \in {"inject_xray", "inject_bath", "inject_from_dm"}

\* the position of the one call `op` of step i
At(op, i) == CHOOSE a \in Events : trace[a] = Call(op, i, NoShell)

\* C14: in every iteration init_step is called exactly once and before any
\* injection of the iteration; populate_injection_boxes exactly once, after
\* every injection of the iteration; the simulator step exactly once, right
\* after populate_injection_boxes (on the boxes it filled); and no injection
\* falls between populate_injection_boxes and the next init_step.
C14_ResetAccumulateConsume ==
    /\ \A i \in 0..i_z :
        /\ Count("init_step", i, NoShell) = (IF i \in StepsBegun THEN 1 ELSE 0)
        /\ Count("populate_injection_boxes", i, NoShell) = (IF i \in StepsSimulated THEN 1 ELSE 0)
        /\ Count("p21c_step", i, NoShell) = (IF i \in StepsSimulated THEN 1 ELSE 0)
    /\ \A b \in Events : IsInjection(trace[b]) =>
        /\ trace[b].i_z \in StepsBegun
        /\ At("init_step", trace[b].i_z) < b
        /\ trace[b].i_z \in StepsSimulated => b < At("populate_injection_boxes", trace[b].i_z)
    /\ \A i \in StepsSimulated :
        /\ At("p21c_step", i) = At("populate_injection_boxes", i) + 1
        /\ \A b \in Events : (IsInjection(trace[b]) /\ At("populate_injection_boxes", i) < b) =>
            /\ i + 1 \in StepsBegun
            /\ At("init_step", i + 1) < b

\* a finished run of three steps or more with injections of all three kinds
C14_Witness ==
    /\ pc = "done" /\ i_z >= 3
    /\ \E a, b, c \in Events : /\ trace[a].op = "inject_xray" /\ trace[b].op = "inject_bath"
                               /\ trace[c].op = "inject_from_dm" /\ trace[a].i_z = 2

\* C15: with 'uniform-xray' among the debug flags the X-ray injection is
\* uniform: every retrieved shell is added to the bath spectrum and no shell
\* is injected with inject_type='xray' and a weight box.
C15_UniformXrayFoldsEveryShell ==
    "uniform-xray" \in debug_flags =>
        /\ \A a \in Events : trace[a].op # "inject_xray"
        /\ \A a \in Events : trace[a].op = "get_annulus_data" =>
            (a < Len(trace) /\ trace[a + 1] = Call("fold", trace[a].i_z, trace[a].i_z_shell))

(***************************************************************************)
(* Properties of the record log                                            *)
(***************************************************************************)
\* the rows of the log as they read now
Rows == arr_records(records, arrays)

\* C16: a record, once appended, is never changed by a later step (its
\* 'phot_N' stays the bath array as it was when the record was appended), and
\* in the returned table 'E_phot' of a row is the total energy of the
\* 'phot_N' of that row.
C16_RecordsAreNeverChanged ==
    /\ [][\A k \in 1..Len(records) : Rows'[k] = Rows[k]]_vars
    /\ [](pc = "done" => \A k \in 1..Len(evolve_ret) :
            evolve_ret[k].E_phot = toteng(evolve_ret[k].phot_N))

(***************************************************************************)
(* Properties of the shells of a step                                      *)
(***************************************************************************)
\* the calls of the shell loop
IsShellCall(e) == e.op \in {"get_annulus_data", "fold", "inject_xray"}

\* C17: in every step each retrieved shell is either added to the bath
\* spectrum or injected as 'xray' with its weight box, never both and never
\* neither (and nothing else is folded or injected as 'xray'); every fold of
\* the step comes before its bath injection; the bath injection and the
\* dark-matter injection happen exactly once per step, after all the shells
\* of the step.
C17_EachShellOneWay ==
    /\ \A i \in 0..i_z : \A k \in 0..i_z :
        /\ Count("get_annulus_data", i, k) <= 1
        /\ Count("fold", i, k) + Count("inject_xray", i, k) = Count("get_annulus_data", i, k)
    /\ \A a \in Events : trace[a].op = "get_annulus_data" =>
        /\ a < Len(trace)
        /\ trace[a + 1].op \in {"fold", "inject_xray"}
        /\ trace[a + 1].i_z = trace[a].i_z /\ trace[a + 1].i_z_shell = trace[a].i_z_shell
    /\ \A i \in 0..i_z :
        /\ Count("inject_bath", i, NoShell) = (IF i \in StepsInjected THEN 1 ELSE 0)
        /\ Count("inject_from_dm", i, NoShell) = (IF i \in StepsInjected THEN 1 ELSE 0)
    /\ \A i \in StepsInjected :
        /\ At("inject_bath", i) < At("inject_from_dm", i)
        /\ \A a \in Events : (IsShellCall(trace[a]) /\ trace[a].i_z = i) => a < At("inject_bath", i)

\* a finished run with a step that folded one shell and injected another
C17_Witness ==
    /\ pc = "done"
    /\ \E a, b \in Events : /\ trace[a].op = "fold" /\ trace[b].op = "inject_xray"
                            /\ trace[a].i_z = trace[b].i_z

(***************************************************************************)
(* Properties of the annulus cache as the driver uses it                   *)
(***************************************************************************)
\* the steps k+1 .. i-1, in order
StepsBetween(k, i) == [j \in 1..(i - k - 1) |-> k + j]

\* C18: in every step advance_spectrum is called exactly once and before the
\* cache() of the step, so a cached spectrum never takes the attenuation of
\* its own donor step: the shell emitted in step k, when retrieved in a step
\* i > k, has been advanced exactly i-k-1 times, with the attenuations of the
\* steps k+1 .. i-1 in that order.
C18_AdvanceBeforeCache ==
    /\ \A i \in 0..i_z :
        /\ Count("advance_spectrum", i, NoShell) = (IF i \in StepsComplete THEN 1 ELSE 0)
        /\ Count("cache", i, NoShell) = (IF i \in StepsComplete THEN 1 ELSE 0)
        /\ i \in StepsComplete => At("advance_spectrum", i) < At("cache", i)
    /\ \A k \in StepsComplete : ~FoldedBefore(k, i_z + 1) =>
        LET got == get_annulus_data(xray_cacher, z_edges[k + 1])
        IN  got.donor = k /\ got.advanced = StepsBetween(k, i_z)

\* a shell is being retrieved three steps or more after its donor step
C18_Witness ==
    /\ pc = "xray" /\ Len(trace) >= 1
    /\ trace[Len(trace)].op \in {"fold", "inject_xray"}
    /\ trace[Len(trace)].i_z = i_z
    /\ i_z - trace[Len(trace)].i_z_shell >= 3

(***************************************************************************)
(* Termination and monotonicity of get_z_edges                             *)
(***************************************************************************)
\* C19: for a step factor > 1 and -1 < z_end < z_start, get_z_edges returns,
\* and what it returns is a strictly decreasing sequence of at least two
\* edges; of the unclipped sequence only the first element can reach or
\* exceed z_start, so the clip changes at most the first element.  Stated
\* for the loop in double precision just above z = -1.
C19_TerminatesInDoubles ==
    /\ <>(zed.op = "returned")
    /\ [](zed.op = "returned" =>
            /\ Len(zed.ret) >= 2
            /\ \A i \in 1..(Len(zed.ret) - 1) : zed.ret[i + 1] < zed.ret[i]
            /\ \A i \in 2..Len(zed.ret) :
                /\ Reverse(zed.z_s)[i] < zed.z_max
                /\ zed.ret[i] = Reverse(zed.z_s)[i])

\* the pass of the loop that leaves z_s[-1] where it was
C19_StalledPass ==
    /\ zed.op = "loop" /\ Len(zed.z_s) >= 2
    /\ zed.z_s[Len(zed.z_s)] = zed.z_s[Len(zed.z_s) - 1]
    /\ ZLoopCondUlp(zed.z_s, zed.z_max)

\* the same statement in exact arithmetic, where every pass multiplies
\* z + 1 by the step factor: it holds under SpecZFair
C19_TerminatesStrictlyDecreasing ==
    /\ <>(zed.op = "returned")
    /\ [](zed.op = "returned" =>
            /\ Len(zed.ret) >= 2
            /\ \A i \in 1..(Len(zed.ret) - 1) : FLt(zed.ret[i + 1], zed.ret[i])
            /\ \A i \in 2..Len(zed.ret) :
                /\ FLt(Reverse(zed.z_s)[i], zed.z_max)
                /\ zed.ret[i] = Reverse(zed.z_s)[i])

\* a returned sequence from a negative z_end whose first element was clipped
C19_Witness ==
    /\ zed.op = "returned"
    /\ Len(zed.ret) >= 3
    /\ FLt(zed.z_min, R(0))
    /\ zed.ret[1] # Reverse(zed.z_s)[1]

====
